---- MODULE Spec2Model ----
(***************************************************************************)
(* jsonrpc::Value (include/jsonrpc-lean/value.h): the tagged union with    *)
(* the frozen bit, its construction, copy/move assignment, Reset and       *)
(* destruction, over an explicit heap of String/Object/Array payloads.     *)
(***************************************************************************)
EXTENDS Integers, Sequences, FiniteSets, TLC

(* ------------------------------ bounds -------------------------------- *)
\* number of heap payloads that exist at a time (an address released by one
\* operation is handed out again only by a later operation, so that within an
\* operation an address names one payload)
MaxAddr == 4
\* longest Array literal handed to a constructor or a bare assignment
MaxLen == 1

(* ------------------------- unsigned char bits -------------------------- *)
\* width of the unsigned char that stores _type
TypeBits == 8

RECURSIVE BitAndN(_, _, _)
BitAndN(x, y, n) ==
    IF n = 0 \/ x = 0 \/ y = 0 THEN 0
    ELSE (x % 2) * (y % 2) + 2 * BitAndN(x \div 2, y \div 2, n - 1)

\* x & y on unsigned char operands
BitAnd(x, y) == BitAndN(x, y, TypeBits)

RECURSIVE BitOrN(_, _, _)
BitOrN(x, y, n) ==
    IF n = 0 \/ (x = 0 /\ y = 0) THEN 0
    ELSE (IF x % 2 = 1 \/ y % 2 = 1 THEN 1 ELSE 0)
         + 2 * BitOrN(x \div 2, y \div 2, n - 1)

\* x | y on unsigned char operands
BitOr(x, y) == BitOrN(x, y, TypeBits)

RECURSIVE BitXorN(_, _, _)
BitXorN(x, y, n) ==
    IF n = 0 \/ (x = 0 /\ y = 0) THEN 0
    ELSE (IF x % 2 # y % 2 THEN 1 ELSE 0)
         + 2 * BitXorN(x \div 2, y \div 2, n - 1)

\* x ^ y on unsigned char operands
BitXor(x, y) == BitXorN(x, y, TypeBits)

\* x & ~y on unsigned char operands
BitAndNot(x, y) == BitAnd(x, BitXor(2 ^ TypeBits - 1, y))

(* --------------------------- enum Value::Type -------------------------- *)
TYPE_UNDEFINED == 0
TYPE_NULL == 1
TYPE_BOOLEAN == 2
TYPE_NUMBER == 4
TYPE_DOUBLE == BitOr(TYPE_NUMBER, 0)
TYPE_INT32 == BitOr(TYPE_NUMBER, 1)
TYPE_STRING == 8
TYPE_OBJECT == 16
TYPE_ARRAY == BitOr(TYPE_OBJECT, 1)
TYPE_FROZEN == 128
TYPE_FLAGS == TYPE_FROZEN
TYPE_MASK == BitXor(2 ^ TypeBits - 1, TYPE_FLAGS)

(* ------------------------------ the state ------------------------------ *)
\* the named (stack) Values of the caller
Vars == {"a", "b"}

VARIABLES
    live,    \* live[x]: Value x is constructed and not yet destroyed
    val,     \* val[x]: the Value object x: its _type byte and its union
    heap,    \* heap[p]: the String/Object/Array payload at address p
    status,  \* "running", or how the process ended
    op       \* the last operation: its name, operands and outcome

vars == <<live, val, heap, status, op>>

Addrs == 1..MaxAddr

\* Value(): _type(TYPE_UNDEFINED), _double(0)
NewValue == [_type |-> TYPE_UNDEFINED, mem |-> "_double", bits |-> 0]

EmptyObj == [k \in {} |-> NewValue]

\* a heap cell nobody allocated yet, and one that was deleted
UnusedCell == [st |-> "unused", kind |-> "none", str |-> "", arr |-> <<>>,
               cap |-> 0, obj |-> EmptyObj]
FreedCell == [st |-> "freed", kind |-> "none", str |-> "", arr |-> <<>>,
              cap |-> 0, obj |-> EmptyObj]

(* --------------------- places a Value object lives --------------------- *)
VarLoc(x) == [k |-> "var", var |-> x, addr |-> 0, idx |-> 0, key |-> ""]
ArrLoc(p, i) == [k |-> "arr", var |-> "", addr |-> p, idx |-> i, key |-> ""]
ObjLoc(p, key) == [k |-> "obj", var |-> "", addr |-> p, idx |-> 0, key |-> key]

\* the Value object stored at a place (whatever is left there after a delete)
Get(m, loc) ==
    CASE loc.k = "var" -> m.val[loc.var]
      [] loc.k = "arr" -> m.heap[loc.addr].arr[loc.idx]
      [] loc.k = "obj" -> m.heap[loc.addr].obj[loc.key]

Put(m, loc, v) ==
    CASE loc.k = "var" -> [m EXCEPT !.val[loc.var] = v]
      [] loc.k = "arr" -> [m EXCEPT !.heap[loc.addr].arr[loc.idx] = v]
      [] loc.k = "obj" -> [m EXCEPT !.heap[loc.addr].obj[loc.key] = v]

\* the storage of the Value object at loc has not been released
LocLive(m, loc) ==
    \/ loc.k = "var"
    \/ /\ m.heap[loc.addr].st = "live"
       /\ loc.k = "arr" => loc.idx \in 1..Len(m.heap[loc.addr].arr)
       /\ loc.k = "obj" => loc.key \in DOMAIN m.heap[loc.addr].obj

\* a read or write of the Value object at loc: undefined once it was released
Touch(m, loc) ==
    IF LocLive(m, loc) \/ m.fault # "none" THEN m
    ELSE [m EXCEPT !.fault = "use_after_free"]

(* ------------------------- type tag and freezing ----------------------- *)
GetType(v) == BitAnd(v._type, TYPE_MASK)

CanChangeType(v) == BitAnd(v._type, TYPE_FROZEN) = 0

CanChangeTypeTo(v, other) == CanChangeType(v) \/ GetType(v) = other

FreezeValue(v) == [v EXCEPT !._type = BitOr(v._type, TYPE_FROZEN)]

UnfreezeValue(v) == [v EXCEPT !._type = BitAndNot(v._type, TYPE_FROZEN)]

IsString(v) == GetType(v) = TYPE_STRING
IsObject(v) == GetType(v) = TYPE_OBJECT
IsArray(v) == GetType(v) = TYPE_ARRAY

\* the tags whose union member is a payload pointer
PtrTypes == {TYPE_STRING, TYPE_OBJECT, TYPE_ARRAY}

HoldsPayload(v) == GetType(v) \in PtrTypes

(* --------------------------- results of calls -------------------------- *)
Ok(m) == [m |-> m, ex |-> "none", ret |-> 0]
Ret(m, r) == [m |-> m, ex |-> "none", ret |-> r]
Throw(m, e) == [m |-> m, ex |-> e, ret |-> 0]

\* the call neither threw nor ended the process
Went(r) == r.ex = "none" /\ r.m.fault \notin {"terminate"}

\* the statements F after a call: they run when the call returned
Then(r, F(_)) == IF Went(r) THEN F(r) ELSE r

\* the value of a call is not used
Done(r) == IF Went(r) THEN Ok(r.m) ELSE r

\* an exception leaves a noexcept function: std::terminate
Noexcept(r) == IF r.ex # "none" THEN [r.m EXCEPT !.fault = "terminate"] ELSE r.m

TypeChangeErrors == {"invalid_argument:127", "invalid_argument:335",
                     "invalid_argument:359"}

\* SetType that does not ask CanChangeType(type) first
SetTypeUnchecked(m, loc, type) ==
    LET v == Get(m, loc)
        old == BitAndNot(v._type, TYPE_FLAGS)
        new == BitOr(BitAnd(v._type, TYPE_FLAGS), BitAndNot(type, TYPE_FLAGS))
    IN  Ret(Put(m, loc, [v EXCEPT !._type = new]), old)

\* Type SetType(Type type)
SetType(m, loc, type) ==
    LET v == Get(m, loc) IN
    IF ~CanChangeTypeTo(v, type)
    THEN Throw(m, "invalid_argument:127")
    ELSE LET old == BitAndNot(v._type, TYPE_FLAGS)
             new == BitOr(BitAnd(v._type, TYPE_FLAGS), BitAndNot(type, TYPE_FLAGS))
         IN  Ret(Put(m, loc, [v EXCEPT !._type = new]), old)

(* ------------------------------ the heap ------------------------------- *)
\* new String / new Object / new Array: the lowest address not in use.
\* With none left the run is outside the bound (oom) and the step is dropped.
Alloc(m, kind) ==
    LET unused == {p \in Addrs : m.heap[p].st = "unused"} IN
    IF unused = {}
    THEN Ret([m EXCEPT !.oom = TRUE], 0)
    ELSE LET p == CHOOSE q \in unused : \A r \in unused : q <= r IN
         Ret([m EXCEPT !.heap[p] = [UnusedCell EXCEPT !.st = "live", !.kind = kind]], p)

RECURSIVE Reset(_, _)
RECURSIVE DestroyArr(_, _, _, _)
RECURSIVE DestroyObj(_, _, _)

\* ~Value() { Reset(); }  The destructor is implicitly noexcept: an exception
\* that leaves Reset() ends the process in std::terminate.
Destruct(m, loc) ==
    IF m.fault = "terminate" THEN m ELSE Noexcept(Reset(m, loc))

\* std::vector<Value> destroys its elements lo..hi in index order
DestroyArr(m, p, lo, hi) ==
    IF lo > hi THEN m
    ELSE DestroyArr(Destruct(m, ArrLoc(p, lo)), p, lo + 1, hi)

\* std::unordered_map<String, Value> destroys the members with keys ks
DestroyObj(m, p, ks) ==
    IF ks = {} THEN m
    ELSE LET k == CHOOSE x \in ks : TRUE IN
         DestroyObj(Destruct(m, ObjLoc(p, k)), p, ks \ {k})

\* the destructors of the Values held by the container at address p
DestroyElems(m, p) ==
    CASE m.heap[p].kind = "Array" -> DestroyArr(m, p, 1, Len(m.heap[p].arr))
      [] m.heap[p].kind = "Object" -> DestroyObj(m, p, DOMAIN m.heap[p].obj)
      [] OTHER -> m

\* The storage at p goes back to the allocator.  The released bytes stay
\* readable to a later (undefined) read: with m.dse they are the bytes from
\* before the element destructors ran (the compiler dropped the destructors'
\* stores to dying objects), else from after.
Released(m, p, before) ==
    IF m.fault = "terminate" THEN m
    ELSE [m EXCEPT !.heap[p] = [(IF m.dse THEN before ELSE @) EXCEPT !.st = "freed"],
                   !.del = Append(@, p)]

\* delete _string / delete _object / delete _array on address p.
\* Deleting a payload that was already deleted is undefined (double free).
DeletePayload(m, p) ==
    IF m.fault = "terminate" THEN m
    ELSE IF m.heap[p].st # "live"
    THEN [m EXCEPT !.fault = IF @ = "none" THEN "double_free" ELSE @,
                   !.del = Append(@, p)]
    ELSE Released(DestroyElems(m, p), p, m.heap[p])

\* Value& Reset(): each of the three branches deletes the one pointer of the
\* union, under the name the old tag gives it
Reset(m, loc) ==
    Then(SetType(m, loc, TYPE_UNDEFINED),
         LAMBDA r :
            IF BitAnd(r.ret, BitOr(TYPE_STRING, TYPE_OBJECT)) # 0
               /\ r.ret \in {TYPE_STRING, TYPE_OBJECT, TYPE_ARRAY}
            THEN Ok(DeletePayload(r.m, Get(r.m, loc).bits))
            ELSE Ok(r.m))

(* ------------------- literals handed to constructors ------------------- *)
\* what the caller writes: a scalar, a String, an Object or an Array by value
Lit(t, n, s, a, o) == [t |-> t, n |-> n, s |-> s, a |-> a, o |-> o]
NoLitObj == [k \in {} |-> 0]
LUndefined == Lit(TYPE_UNDEFINED, 0, "", <<>>, NoLitObj)
LNull == Lit(TYPE_NULL, 0, "", <<>>, NoLitObj)
LBoolean(b) == Lit(TYPE_BOOLEAN, b, "", <<>>, NoLitObj)
LInt32(n) == Lit(TYPE_INT32, n, "", <<>>, NoLitObj)
LDouble(d) == Lit(TYPE_DOUBLE, d, "", <<>>, NoLitObj)
LString(s) == Lit(TYPE_STRING, 0, s, <<>>, NoLitObj)
LArray(a) == Lit(TYPE_ARRAY, 0, "", a, NoLitObj)
LObject(o) == Lit(TYPE_OBJECT, 0, "", <<>>, o)

ScalarLits == {LUndefined, LNull, LBoolean(0), LBoolean(1),
               LInt32(0), LInt32(1), LDouble(0), LDouble(1)}
StringLits == {LString(""), LString("x")}
ElemLits == {LUndefined, LInt32(1), LString("x")}
ArrayLits == {LArray(a) : a \in UNION {[1..n -> ElemLits] : n \in 0..MaxLen}}
ObjectLits == {LObject(o) : o \in UNION {[K -> ElemLits] : K \in {{}, {"k"}}}}
PayloadLits == StringLits \cup ArrayLits \cup ObjectLits
\* the bare String/Object/Array objects the caller assigns
BareLits == {LString("x"), LArray(<<>>), LObject([k \in {"k"} |-> LInt32(1)])}
               \cup {LArray([i \in 1..MaxLen |-> LString("x")])}
AllLits == ScalarLits \cup PayloadLits

RECURSIVE Build(_, _, _)
RECURSIVE BuildArr(_, _, _, _)
RECURSIVE BuildObj(_, _, _, _)

\* the converting constructors Value(), Value(Null), Value(bool), Value(int),
\* Value(double), Value(String), Value(Object), Value(Array): the Value object
\* at loc is initialised from the literal
Build(m, loc, lit) ==
    CASE lit.t = TYPE_UNDEFINED -> Put(m, loc, NewValue)
      [] lit.t = TYPE_NULL ->
           Put(m, loc, [_type |-> TYPE_NULL, mem |-> "_double", bits |-> 0])
      [] lit.t = TYPE_BOOLEAN ->
           Put(m, loc, [_type |-> TYPE_BOOLEAN, mem |-> "_boolean", bits |-> lit.n])
      [] lit.t = TYPE_INT32 ->
           Put(m, loc, [_type |-> TYPE_INT32, mem |-> "_int32", bits |-> lit.n])
      [] lit.t = TYPE_DOUBLE ->
           Put(m, loc, [_type |-> TYPE_DOUBLE, mem |-> "_double", bits |-> lit.n])
      [] lit.t = TYPE_STRING ->
           LET r == Alloc(m, "String") IN
           Put([r.m EXCEPT !.heap[r.ret].str = lit.s], loc,
               [_type |-> TYPE_STRING, mem |-> "_string", bits |-> r.ret])
      [] lit.t = TYPE_ARRAY ->
           LET r == Alloc(m, "Array")
               m1 == [r.m EXCEPT !.heap[r.ret].arr = [i \in 1..Len(lit.a) |-> NewValue],
                                 !.heap[r.ret].cap = Len(lit.a)]
           IN  Put(BuildArr(m1, r.ret, lit.a, 1), loc,
                   [_type |-> TYPE_ARRAY, mem |-> "_array", bits |-> r.ret])
      [] lit.t = TYPE_OBJECT ->
           LET r == Alloc(m, "Object")
               m1 == [r.m EXCEPT !.heap[r.ret].obj = [k \in DOMAIN lit.o |-> NewValue]]
           IN  Put(BuildObj(m1, r.ret, lit.o, DOMAIN lit.o), loc,
                   [_type |-> TYPE_OBJECT, mem |-> "_object", bits |-> r.ret])

BuildArr(m, p, a, i) ==
    IF i > Len(a) \/ m.oom THEN m
    ELSE BuildArr(Build(m, ArrLoc(p, i), a[i]), p, a, i + 1)

BuildObj(m, p, o, ks) ==
    IF ks = {} \/ m.oom THEN m
    ELSE LET k == CHOOSE x \in ks : TRUE IN
         BuildObj(Build(m, ObjLoc(p, k), o[k]), p, o, ks \ {k})

(* ------------------------ copy and move of Values ---------------------- *)
\* a dereference of the payload pointer p: undefined once p was released
Deref(m, p) ==
    IF m.heap[p].st = "live" \/ m.fault # "none" THEN m
    ELSE [m EXCEPT !.fault = "use_after_free"]

\* plain data members read from `copy`/`move` after this->Reset()
UnionTypes == {TYPE_BOOLEAN, TYPE_DOUBLE, TYPE_INT32,
               TYPE_STRING, TYPE_OBJECT, TYPE_ARRAY}

MemberOf(type) ==
    CASE type = TYPE_BOOLEAN -> "_boolean"
      [] type = TYPE_DOUBLE -> "_double"
      [] type = TYPE_INT32 -> "_int32"
      [] type = TYPE_STRING -> "_string"
      [] type = TYPE_OBJECT -> "_object"
      [] type = TYPE_ARRAY -> "_array"

\* this->_member = bits
SetUnion(m, loc, type, bits) ==
    Put(m, loc, [Get(m, loc) EXCEPT !.mem = MemberOf(type), !.bits = bits])

RECURSIVE AssignCopy(_, _, _)
RECURSIVE CopyElems(_, _, _, _, _)
RECURSIVE CopyMembers(_, _, _, _)
RECURSIVE AssignElems(_, _, _, _, _)

\* a copy of the members of the Value object, _type included
CopyConstructBitwise(m, loc, copy) == Ok(Put(m, loc, Get(m, copy)))

\* explicit Value(const Value& copy) : Value() { Assign(copy); }, at place loc
CopyConstructAt(m, loc, copy) == AssignCopy(Put(m, loc, NewValue), loc, copy)

\* copy-construct the elements lo..hi of vector d from those of vector s
CopyElems(m, d, s, lo, hi) ==
    IF lo > hi \/ m.oom THEN Ok(m)
    ELSE Then(CopyConstructAt(m, ArrLoc(d, lo), ArrLoc(s, lo)),
              LAMBDA r : CopyElems(r.m, d, s, lo + 1, hi))

\* copy-construct the members ks of map d from those of map s
CopyMembers(m, d, s, ks) ==
    IF ks = {} \/ m.oom THEN Ok(m)
    ELSE LET k == CHOOSE x \in ks : TRUE IN
         Then(CopyConstructAt(m, ObjLoc(d, k), ObjLoc(s, k)),
              LAMBDA r : CopyMembers(r.m, d, s, ks \ {k}))

\* Value::operator=(const Value&) on the elements lo..hi of vector d
AssignElems(m, d, s, lo, hi) ==
    IF lo > hi \/ m.oom THEN Ok(m)
    ELSE Then(AssignCopy(m, ArrLoc(d, lo), ArrLoc(s, lo)),
              LAMBDA r : AssignElems(r.m, d, s, lo + 1, hi))

\* the call returned the new object at address p
At_(r, p) == [r EXCEPT !.ret = p]

\* _string = copy._string: the pointer is copied, no String is made
NewStringShared(m, s) == Ret(Deref(m, s), s)

\* new String(*copy._string): the address comes back in ret
NewString(m, s) ==
    LET r == Alloc(Deref(m, s), "String") IN
    Ret([r.m EXCEPT !.heap[r.ret].str = r.m.heap[s].str], r.ret)

\* new Array(*copy._array): std::vector's copy constructor
NewArray(m, s) ==
    LET r == Alloc(Deref(m, s), "Array")
        n == Len(m.heap[s].arr)
    IN  At_(CopyElems([r.m EXCEPT !.heap[r.ret].arr = [i \in 1..n |-> NewValue],
                                  !.heap[r.ret].cap = n],
                      r.ret, s, 1, n),
            r.ret)

\* new Object(*copy._object): std::unordered_map's copy constructor
NewObject(m, s) ==
    LET r == Alloc(Deref(m, s), "Object")
        ks == DOMAIN m.heap[s].obj
    IN  At_(CopyMembers([r.m EXCEPT !.heap[r.ret].obj = [k \in ks |-> NewValue]],
                        r.ret, s, ks),
            r.ret)

\* *_string = *copy._string: std::string's copy assignment, in place
StringAssign(m, d, s) ==
    Ok([Deref(Deref(m, s), d) EXCEPT !.heap[d].str = m.heap[s].str])

\* *_array = *copy._array: std::vector's copy assignment.  More elements than
\* the capacity: a new buffer is copy-constructed, then the old elements are
\* destroyed.  Otherwise the buffer is kept: the elements both have are
\* assigned with Value::operator=, surplus ones destroyed, missing ones
\* copy-constructed.
VectorAssign(m, d, s) ==
    LET m0 == Deref(Deref(m, s), d)
        n == Len(m.heap[s].arr)
        k == Len(m.heap[d].arr)
    IN  IF d = s THEN Ok(m0)
        ELSE IF n > m.heap[d].cap
        THEN Then(CopyElems([m0 EXCEPT !.heap[d].arr = [i \in 1..n |-> NewValue]],
                            d, s, 1, n),
                  LAMBDA c :
                     Ok([DestroyArr([c.m EXCEPT !.heap[d].arr = m.heap[d].arr],
                                    d, 1, k)
                            EXCEPT !.heap[d].arr = c.m.heap[d].arr,
                                   !.heap[d].cap = n]))
        ELSE IF k >= n
        THEN Then(AssignElems(m0, d, s, 1, n),
                  LAMBDA c :
                     Ok([DestroyArr(c.m, d, n + 1, k)
                            EXCEPT !.heap[d].arr = SubSeq(@, 1, n)]))
        ELSE Then(AssignElems(m0, d, s, 1, k),
                  LAMBDA c :
                     CopyElems([c.m EXCEPT !.heap[d].arr =
                                   @ \o [i \in 1..(n - k) |-> NewValue]],
                               d, s, k + 1, n))

\* *_object = *copy._object: std::unordered_map's copy assignment: the old
\* members are destroyed and every member of the source is copy-constructed
\* (the nodes hold pair<const String, Value>, which is not assignable)
MapAssign(m, d, s) ==
    IF d = s THEN Ok(Deref(Deref(m, s), d))
    ELSE Then(Ok(DestroyObj(Deref(Deref(m, s), d), d, DOMAIN m.heap[d].obj)),
              LAMBDA r :
                 CopyMembers([r.m EXCEPT !.heap[d].obj =
                                 [k \in DOMAIN m.heap[s].obj |-> NewValue]],
                             d, s, DOMAIN m.heap[s].obj))

\* switch (other) of Assign(const Value&): _boolean = copy._boolean, ...,
\* _string = new String(*copy._string), ...: the new union comes back in ret
CopyUnion(m, copy, other) ==
    LET m1 == IF other \in UnionTypes THEN Touch(m, copy) ELSE m
        src == Get(m, copy).bits
    IN  CASE other = TYPE_STRING -> NewString(m1, src)
          [] other = TYPE_OBJECT -> NewObject(m1, src)
          [] other = TYPE_ARRAY -> NewArray(m1, src)
          [] OTHER -> Ret(m1, src)

\* this->_member = bits, for the tags that have a member
SetUnionOf(m, loc, type, bits) ==
    IF type \in UnionTypes THEN SetUnion(m, loc, type, bits) ELSE m

\* Value& Assign(const Value& copy)
AssignCopy(m, this, copy) ==
    LET tv == Get(m, this)
        cv == Get(m, copy)
        type == GetType(tv)
        other == GetType(cv)
    IN
    IF copy = this THEN Ok(m)
    ELSE IF type = other
    THEN CASE type = TYPE_STRING -> StringAssign(m, tv.bits, cv.bits)
           [] type = TYPE_OBJECT -> MapAssign(m, tv.bits, cv.bits)
           [] type = TYPE_ARRAY -> VectorAssign(m, tv.bits, cv.bits)
           [] OTHER -> Ok(m)
    ELSE IF ~CanChangeType(tv)
    THEN Throw(m, "invalid_argument:335")
    ELSE Then(Reset(m, this),
              LAMBDA r :
                 Then(CopyUnion(r.m, copy, other),
                      LAMBDA n :
                         Done(SetType(SetUnionOf(n.m, this, other, n.ret),
                                      this, other))))

\* the container at p is empty
Cleared(m, p) ==
    IF m.fault = "terminate" THEN m
    ELSE [m EXCEPT !.heap[p].str = "", !.heap[p].arr = <<>>,
                   !.heap[p].obj = EmptyObj]

\* _string->clear() / _object->clear() / _array->clear()
ClearPayload(m, p) == Cleared(DestroyElems(Deref(m, p), p), p)

\* std::swap(_string, move._string), and the same for _object and _array
SwapUnion(m, this, move, type, mine, theirs) ==
    IF m.fault = "terminate" THEN m
    ELSE SetUnion(SetUnion(m, this, type, theirs), move, type, mine)

\* a copy-assignment that leaves the source Undefined
AssignCopyThenClear(m, this, move) ==
    Then(AssignCopy(m, this, move),
         LAMBDA r : Ok(Put(r.m, move,
                           [NewValue EXCEPT !._type = BitAnd(Get(r.m, move)._type,
                                                            TYPE_FLAGS)])))

\* Value& Assign(Value&& move)
AssignMove(m, this, move) ==
    LET tv == Get(m, this)
        mv == Get(m, move)
        type == GetType(tv)
        other == GetType(mv)
    IN
    IF move = this THEN Ok(m)
    ELSE IF ~CanChangeTypeTo(tv, other)
    THEN Throw(m, "invalid_argument:359")
    ELSE IF CanChangeTypeTo(mv, TYPE_UNDEFINED)
    THEN \* fastest case: steal the state and leave the other as undefined
         Then(Reset(m, this),
              LAMBDA r :
                 Then(SetType(Touch(SetUnionOf(IF other \in UnionTypes
                                               THEN Touch(r.m, move) ELSE r.m,
                                               this, other, Get(r.m, move).bits),
                                    move),
                              move, TYPE_UNDEFINED),
                      LAMBDA s : Done(SetType(s.m, this, s.ret))))
    ELSE IF type = other
    THEN \* swap the underlying objects, leave the other side with empty remains
         IF type \in {TYPE_BOOLEAN, TYPE_DOUBLE, TYPE_INT32}
         THEN Ok(SetUnion(m, this, type, mv.bits))
         ELSE IF type \in PtrTypes
         THEN Ok(SwapUnion(ClearPayload(m, tv.bits), this, move, type,
                           tv.bits, mv.bits))
         ELSE Ok(m)
    ELSE \* no choice but to copy assign
         AssignCopy(m, this, move)

\* Value(Value&& move) noexcept : Value() { Assign(std::move(move)); }
MoveConstructAt(m, loc, move) ==
    Ok(Noexcept(AssignMove(Put(m, loc, NewValue), loc, move)))

(* ------------- assignment of a bare String / Object / Array ------------ *)
\* The caller's String/Object/Array object (the operand of operator=) and the
\* by-value parameter of Construct() are objects outside the heap of `new`:
\* they are kept in two scratch cells for the time of the call.
CallerObj == 0
ParamObj == MaxAddr + 1
Cells == 0..(MaxAddr + 1)

KindOf(type) ==
    CASE type = TYPE_STRING -> "String"
      [] type = TYPE_OBJECT -> "Object"
      [] type = TYPE_ARRAY -> "Array"
      [] OTHER -> "none"

\* d takes the contents of s, s is left empty
TakeContents(m, d, s) ==
    IF m.fault = "terminate" THEN m
    ELSE [m EXCEPT !.heap[d].str = m.heap[s].str,
                   !.heap[d].arr = m.heap[s].arr,
                   !.heap[d].cap = m.heap[s].cap,
                   !.heap[d].obj = m.heap[s].obj,
                   !.heap[s].str = "",
                   !.heap[s].arr = <<>>,
                   !.heap[s].cap = 0,
                   !.heap[s].obj = EmptyObj]

\* the move constructor / move assignment of std::string, std::vector and
\* std::unordered_map: d takes the contents of s (no Value is touched), s is
\* left empty.  The old elements of d are destroyed first.
MovePayload(m, d, s) ==
    TakeContents(DestroyElems(Deref(Deref(m, s), d), d), d, s)

\* the copy constructor of std::string / std::vector / std::unordered_map
\* into the (empty) object at cell d
CopyPayload(m, d, s) ==
    LET c == m.heap[s] IN
    Then(CopyElems([m EXCEPT !.heap[d].str = c.str,
                             !.heap[d].arr = [i \in 1..Len(c.arr) |-> NewValue],
                             !.heap[d].cap = Len(c.arr),
                             !.heap[d].obj = [k \in DOMAIN c.obj |-> NewValue]],
                   d, s, 1, Len(c.arr)),
         LAMBDA r : CopyMembers(r.m, d, s, DOMAIN c.obj))

\* the storage of the scratch object at p is gone
Dropped(m, p) ==
    IF m.fault = "terminate" THEN m ELSE [m EXCEPT !.heap[p] = UnusedCell]

\* the end of the lifetime of a scratch object: its elements are destroyed
DropScratch(m, p) == Dropped(DestroyElems(m, p), p)

\* the by-value parameter goes out of scope, however the function is left
DropParam(r) == [r EXCEPT !.m = DropScratch(@, ParamObj)]

\* _string = new String(std::move(value)), and the same for Object and Array
NewFromParam(a, this, type) ==
    SetUnion(MovePayload(a.m, a.ret, ParamObj), this, type, a.ret)

\* String& Construct(String value) / Object& Construct(Object value) /
\* Array& Construct(Array value): the parameter is initialised from the
\* caller's object (moved from when that is an rvalue) before the body runs
ConstructPayload(m, this, type, rv) ==
    LET m0 == [m EXCEPT !.heap[ParamObj] =
                  [UnusedCell EXCEPT !.st = "live", !.kind = KindOf(type)]]
    IN  Then(IF rv THEN Ok(MovePayload(m0, ParamObj, CallerObj))
             ELSE CopyPayload(m0, ParamObj, CallerObj),
             LAMBDA p :
                DropParam(Then(SetType(p.m, this, type),
                               LAMBDA t :
                                  Ok(NewFromParam(Alloc(t.m, KindOf(type)),
                                                  this, type)))))

\* template<typename ...Args> Value& Reset(Args&& ...args)
ResetWith(m, this, type, rv) ==
    Then(Reset(m, this), LAMBDA r : ConstructPayload(r.m, this, type, rv))

\* template<typename T> Value& Assign(T&& value), T a String, Object or Array
AssignBare(m, this, type, rv) ==
    LET tv == Get(m, this) IN
    IF GetType(tv) = type
    THEN IF rv THEN Ok(MovePayload(m, tv.bits, CallerObj))
         ELSE CASE type = TYPE_STRING -> StringAssign(m, tv.bits, CallerObj)
                [] type = TYPE_OBJECT -> MapAssign(m, tv.bits, CallerObj)
                [] type = TYPE_ARRAY -> VectorAssign(m, tv.bits, CallerObj)
    ELSE ResetWith(m, this, type, rv)

(* -------------------- the value a Value object holds ------------------- *)
RECURSIVE Abs(_, _)
\* tag and contents of the Value object v, payloads followed, addresses and
\* the frozen bit left out
Abs(m, v) ==
    LET t == GetType(v)
        c == m.heap[v.bits]
    IN  CASE t \in {TYPE_UNDEFINED, TYPE_NULL} -> Lit(t, 0, "", <<>>, NoLitObj)
          [] t \in {TYPE_BOOLEAN, TYPE_DOUBLE, TYPE_INT32} ->
               Lit(t, v.bits, "", <<>>, NoLitObj)
          [] t = TYPE_STRING -> LString(c.str)
          [] t = TYPE_ARRAY -> LArray([i \in 1..Len(c.arr) |-> Abs(m, c.arr[i])])
          [] t = TYPE_OBJECT -> LObject([k \in DOMAIN c.obj |-> Abs(m, c.obj[k])])
          [] OTHER -> Lit(t, 0, "", <<>>, NoLitObj)

\* the contents of the bare String/Object/Array object in cell p
AbsCell(m, p, type) ==
    Abs(m, [_type |-> type, mem |-> MemberOf(type), bits |-> p])

\* a comparison by numeric value: an Int32 equals the Double of the same value
ValueEqNumeric(h, a, b) ==
    IF BitAnd(GetType(a), TYPE_NUMBER) # 0 /\ BitAnd(GetType(b), TYPE_NUMBER) # 0
    THEN a.bits = b.bits
    ELSE Abs([heap |-> h], a) = Abs([heap |-> h], b)

RECURSIVE ValueEq(_, _, _)
\* friend bool operator==(const Value& a, const Value& b), on the heap h
ValueEq(h, a, b) ==
    IF GetType(a) # GetType(b) THEN FALSE
    ELSE CASE GetType(a) = TYPE_BOOLEAN -> a.bits = b.bits
           [] GetType(a) = TYPE_DOUBLE -> a.bits = b.bits
           [] GetType(a) = TYPE_INT32 -> a.bits = b.bits
           [] GetType(a) = TYPE_STRING -> h[a.bits].str = h[b.bits].str
           [] GetType(a) = TYPE_OBJECT ->
                /\ DOMAIN h[a.bits].obj = DOMAIN h[b.bits].obj
                /\ \A k \in DOMAIN h[a.bits].obj :
                      ValueEq(h, h[a.bits].obj[k], h[b.bits].obj[k])
           [] GetType(a) = TYPE_ARRAY ->
                /\ Len(h[a.bits].arr) = Len(h[b.bits].arr)
                /\ \A i \in 1..Len(h[a.bits].arr) :
                      ValueEq(h, h[a.bits].arr[i], h[b.bits].arr[i])
           [] OTHER -> TRUE

(* --------------------------- the caller's view ------------------------- *)
\* deepest nesting of containers the caller builds
MaxDepth == 1

NoLoc == [k |-> "none", var |-> "", addr |-> 0, idx |-> 0, key |-> ""]

\* the state as the memory the operations work on
Mem(dse) == [val |-> val, heap |-> heap, fault |-> "none", oom |-> FALSE,
             del |-> <<>>, dse |-> dse]

\* the Value objects inside the live payloads
ElemLocs ==
    UNION {{ArrLoc(p, i) : i \in 1..Len(heap[p].arr)} \cup
           {ObjLoc(p, k) : k \in DOMAIN heap[p].obj} :
           p \in {q \in Addrs : heap[q].st = "live"}}

\* every Value object the caller can name: a variable, or an element reached
\* through AsArray()/AsObject()
Locs == {VarLoc(x) : x \in {y \in Vars : live[y]}} \cup ElemLocs

At(loc) == Get(Mem(FALSE), loc)

RECURSIVE Height(_)
\* nesting of containers below the Value object v
Height(v) ==
    LET c == heap[v.bits] IN
    CASE IsArray(v) ->
           IF c.arr = <<>> THEN 1
           ELSE 1 + (CHOOSE h \in {Height(c.arr[i]) : i \in 1..Len(c.arr)} :
                       \A i \in 1..Len(c.arr) : Height(c.arr[i]) <= h)
      [] IsObject(v) ->
           IF DOMAIN c.obj = {} THEN 1
           ELSE 1 + (CHOOSE h \in {Height(c.obj[k]) : k \in DOMAIN c.obj} :
                       \A k \in DOMAIN c.obj : Height(c.obj[k]) <= h)
      [] OTHER -> 0

LitHeight(lit) == IF lit.t \in {TYPE_ARRAY, TYPE_OBJECT} THEN 1 ELSE 0

RECURSIVE AddrLevel(_)
\* number of containers around the elements of the payload at address p
AddrLevel(p) ==
    IF \E x \in Vars : live[x] /\ HoldsPayload(val[x]) /\ val[x].bits = p
    THEN 1
    ELSE LET holders == {q \in Addrs : heap[q].st = "live" /\
                (\/ \E i \in 1..Len(heap[q].arr) :
                       HoldsPayload(heap[q].arr[i]) /\ heap[q].arr[i].bits = p
                 \/ \E k \in DOMAIN heap[q].obj :
                       HoldsPayload(heap[q].obj[k]) /\ heap[q].obj[k].bits = p)}
         IN  IF holders = {} THEN 1
             ELSE 1 + AddrLevel(CHOOSE q \in holders : TRUE)

\* number of containers around the Value object at loc
Level(loc) == IF loc.k = "var" THEN 0 ELSE AddrLevel(loc.addr)

UBFaults == {"use_after_free", "double_free"}

\* No operation reads the union of an Undefined or Null Value: its bytes are
\* left out of the state between operations.
Settle(v) ==
    IF GetType(v) \in {TYPE_UNDEFINED, TYPE_NULL}
    THEN [v EXCEPT !.mem = NewValue.mem, !.bits = NewValue.bits]
    ELSE v

(* Addresses are names: between two operations the live payloads are renamed
   in the order the caller reaches them (a first, then b; a container before
   its elements), so that two heaps that differ only in the names are one
   state.  Whether an operation changed the payload address of a variable is
   decided on the names as the operation left them, before the renaming, and
   kept in op.moved. *)
VarOrder == <<"a", "b">>
KeyOrder == <<"k", "l">>

RECURSIVE Reach(_, _)
RECURSIVE ReachArr(_, _, _)
RECURSIVE ReachObj(_, _, _)
\* the addresses reached from the Value object v, a container first
Reach(h, v) ==
    IF ~HoldsPayload(v) THEN <<>>
    ELSE IF h[v.bits].st # "live" THEN <<v.bits>>
    ELSE <<v.bits>> \o ReachArr(h, h[v.bits].arr, 1) \o ReachObj(h, h[v.bits].obj, 1)

ReachArr(h, arr, i) ==
    IF i > Len(arr) THEN <<>>
    ELSE Reach(h, arr[i]) \o ReachArr(h, arr, i + 1)

ReachObj(h, obj, j) ==
    IF j > Len(KeyOrder) THEN <<>>
    ELSE (IF KeyOrder[j] \in DOMAIN obj THEN Reach(h, obj[KeyOrder[j]]) ELSE <<>>)
         \o ReachObj(h, obj, j + 1)

RECURSIVE Uniq(_)
\* the sequence without the later occurrences of an element
Uniq(s) ==
    IF s = <<>> THEN <<>>
    ELSE LET u == Uniq(SubSeq(s, 1, Len(s) - 1)) IN
         IF \E i \in 1..Len(u) : u[i] = s[Len(s)] THEN u ELSE Append(u, s[Len(s)])

RECURSIVE Ascending(_)
\* the addresses of a set, lowest first
Ascending(S) ==
    IF S = {} THEN <<>>
    ELSE LET p == CHOOSE q \in S : \A r \in S : q <= r IN <<p>> \o Ascending(S \ {p})

\* the payloads in the order of their new names: the reachable ones, then the
\* live ones no Value holds
NameOrder(lv, v, h) ==
    LET reached == Uniq(Reach(h, IF lv[VarOrder[1]] THEN v[VarOrder[1]] ELSE NewValue)
                        \o Reach(h, IF lv[VarOrder[2]] THEN v[VarOrder[2]] ELSE NewValue))
        lost == {p \in Addrs : h[p].st = "live" /\ \A i \in 1..Len(reached) : reached[i] # p}
    IN  reached \o Ascending(lost)

\* the new name of address p
NewName(order, p) ==
    IF \E i \in 1..Len(order) : order[i] = p
    THEN CHOOSE i \in 1..Len(order) : order[i] = p
    ELSE p

\* No operation reads the union of an Undefined or Null Value: its bytes are
\* left out of the state between operations.
Rename(order, v) ==
    IF HoldsPayload(v) THEN [v EXCEPT !.bits = NewName(order, v.bits)] ELSE Settle(v)

\* The heap between two operations: the scratch objects are gone, storage
\* released by a well-defined operation is free to be handed out again, and
\* the payloads carry their new names.
Normalize(h, order) ==
    [p \in Cells |->
        IF p \notin 1..Len(order) THEN UnusedCell
        ELSE LET c == h[order[p]] IN
             IF c.st = "freed" THEN FreedCell
             ELSE IF c.st = "unused" THEN UnusedCell
             ELSE [c EXCEPT !.arr = [i \in 1..Len(c.arr) |-> Rename(order, c.arr[i])],
                            !.obj = [k \in DOMAIN c.obj |-> Rename(order, c.obj[k])]]]

\* the variables whose payload pointer the operation changed
Moved(lv, m) ==
    {x \in Vars : /\ live[x] /\ lv[x]
                  /\ HoldsPayload(val[x]) /\ HoldsPayload(m.val[x])
                  /\ val[x].bits # m.val[x].bits}

\* The record of the last operation.  this/other: the operands under the names
\* they had at the call, thisNow/otherNow: under the names they have now.
\* kind/rv/kept: the caller's literal or bare String/Object/Array operand (its
\* tag, whether it was an rvalue, whether it still holds what it held before
\* the call).  ex: the exception that left the call.  del: the addresses
\* handed to delete, in order, under the names at the call.
OpRec(name, this, other, kind, rv, kept, ex, moved, del, thisNow, otherNow) ==
    [name |-> name, this |-> this, other |-> other, kind |-> kind, rv |-> rv,
     kept |-> kept, ex |-> ex, moved |-> moved, del |-> del,
     thisNow |-> thisNow, otherNow |-> otherNow]

\* a call as the caller wrote it
Call(name, this, other, kind, rv) ==
    [name |-> name, this |-> this, other |-> other, kind |-> kind, rv |-> rv]

\* where the Value object at loc is found under the new names
RenameLoc(order, loc) ==
    IF loc.k = "var" \/ loc.k = "none" THEN loc
    ELSE [loc EXCEPT !.addr = NewName(order, loc.addr)]

\* the outcome r of the call c becomes the next state, the payloads renamed
CommitAs(c, kept, lv, r, order) ==
    /\ ~r.m.oom
    /\ live' = lv
    /\ val' = [x \in Vars |-> IF lv[x] THEN Rename(order, r.m.val[x]) ELSE NewValue]
    /\ heap' = Normalize(r.m.heap, order)
    /\ status' = IF r.m.fault = "none" THEN "running" ELSE r.m.fault
    /\ op' = OpRec(c.name, c.this, c.other, c.kind, c.rv, kept, r.ex,
                   Moved(lv, r.m), r.m.del,
                   RenameLoc(order, c.this), RenameLoc(order, c.other))

Commit(c, kept, lv, r) ==
    CommitAs(c, kept, lv, r, NameOrder(lv, r.m.val, r.m.heap))

\* An assignment that reads or deletes released storage has undefined
\* behaviour: the build may go on with the bytes left there (as the
\* destructors left them: r, or as they were before: rdse), or stop.
CommitUB(c, r, rdse) ==
    \/ /\ r.m.fault \notin UBFaults
       /\ Commit(c, TRUE, live, r)
    \/ /\ r.m.fault \in UBFaults
       /\ Commit(c, TRUE, live, r)
    \/ /\ r.m.fault \in UBFaults
       /\ Commit(c, TRUE, live, rdse)
    \/ /\ r.m.fault \in UBFaults
       /\ UNCHANGED <<live, val, heap>>
       /\ status' = "crash"
       /\ op' = OpRec(c.name, c.this, c.other, c.kind, c.rv, TRUE, "none", {},
                      <<>>, c.this, c.other)

\* no operation is under way: the caller has seen the outcome of the last one
IdleOp == OpRec("none", NoLoc, NoLoc, 0, FALSE, TRUE, "none", {}, <<>>,
                NoLoc, NoLoc)

Running == status = "running" /\ op = IdleOp

Init ==
    /\ live = [x \in Vars |-> FALSE]
    /\ val = [x \in Vars |-> NewValue]
    /\ heap = [p \in Cells |-> UnusedCell]
    /\ status = "running"
    /\ op = IdleOp

\* Value x(literal);
Construct(x, lit) ==
    /\ Running /\ ~live[x]
    /\ Commit(Call("Construct", VarLoc(x), NoLoc, lit.t, FALSE), TRUE,
              [live EXCEPT ![x] = TRUE], Ok(Build(Mem(FALSE), VarLoc(x), lit)))

\* Value x(src);  (explicit copy constructor)
CopyConstruct(x, src) ==
    /\ Running /\ ~live[x] /\ src \in Locs
    /\ Commit(Call("CopyConstruct", VarLoc(x), src, 0, FALSE), TRUE,
              [live EXCEPT ![x] = TRUE],
              CopyConstructAt(Mem(FALSE), VarLoc(x), src))

\* Value x(std::move(src));
MoveConstruct(x, src) ==
    /\ Running /\ ~live[x] /\ src \in Locs
    /\ Commit(Call("MoveConstruct", VarLoc(x), src, 0, FALSE), TRUE,
              [live EXCEPT ![x] = TRUE],
              MoveConstructAt(Mem(FALSE), VarLoc(x), src))

\* this = other;
CopyAssign(this, other) ==
    /\ Running /\ this \in Locs /\ other \in Locs
    /\ Level(this) + Height(At(other)) <= MaxDepth
    /\ CommitUB(Call("CopyAssign", this, other, 0, FALSE),
                AssignCopy(Mem(FALSE), this, other),
                AssignCopy(Mem(TRUE), this, other))

\* this = std::move(other);  The caller does not move a container into one of
\* its own elements: the container would then hold itself, reached from no
\* variable, and the nesting of the state would be unbounded.
MoveAssign(this, other) ==
    /\ Running /\ this \in Locs /\ other \in Locs
    /\ LET inside == Reach(heap, At(other)) IN
       this.k # "var" => \A i \in 1..Len(inside) : inside[i] # this.addr
    /\ Level(this) + Height(At(other)) <= MaxDepth
    /\ CommitUB(Call("MoveAssign", this, other, 0, FALSE),
                AssignMove(Mem(FALSE), this, other),
                AssignMove(Mem(TRUE), this, other))

\* the caller's String, Object or Array object s holds the literal
CallerHolds(m, lit) ==
    BuildObj(BuildArr([m EXCEPT !.heap[CallerObj] =
                          [UnusedCell EXCEPT
                              !.st = "live", !.kind = KindOf(lit.t),
                              !.str = lit.s,
                              !.arr = [i \in 1..Len(lit.a) |-> NewValue],
                              !.cap = Len(lit.a),
                              !.obj = [k \in DOMAIN lit.o |-> NewValue]]],
                      CallerObj, lit.a, 1),
             CallerObj, lit.o, DOMAIN lit.o)

\* the caller looks at s after the call, and s goes out of scope
CommitBare(c, lit, r) ==
    Commit(c, AbsCell(r.m, CallerObj, lit.t) = lit, live,
           [r EXCEPT !.m = DropScratch(@, CallerObj)])

\* this = s;  or  this = std::move(s);  for a String, Object or Array s
BareAssign(this, lit, rv) ==
    /\ Running /\ this \in Locs /\ lit \in BareLits
    /\ Level(this) + LitHeight(lit) <= MaxDepth
    /\ CommitBare(Call("BareAssign", this, NoLoc, lit.t, rv), lit,
                  AssignBare(CallerHolds(Mem(FALSE), lit), this, lit.t, rv))

\* x.Freeze();
Freeze(x) ==
    /\ Running /\ live[x]
    /\ Commit(Call("Freeze", VarLoc(x), NoLoc, 0, FALSE), TRUE, live,
              Ok([Mem(FALSE) EXCEPT !.val[x] = FreezeValue(@)]))

\* x.Unfreeze();
Unfreeze(x) ==
    /\ Running /\ live[x]
    /\ Commit(Call("Unfreeze", VarLoc(x), NoLoc, 0, FALSE), TRUE, live,
              Ok([Mem(FALSE) EXCEPT !.val[x] = UnfreezeValue(@)]))

\* the scope of x ends: ~Value()
Destroy(x) ==
    /\ Running /\ live[x]
    /\ Commit(Call("Destroy", VarLoc(x), NoLoc, 0, FALSE), TRUE,
              [live EXCEPT ![x] = FALSE], Ok(Destruct(Mem(FALSE), VarLoc(x))))

\* static void Check(bool condition)
Check(m, condition) ==
    IF condition THEN Ok(m) ELSE Throw(m, "invalid_argument:216")

\* this.AsString().clear();
AsStringClear(this) ==
    /\ Running /\ this \in Locs
    /\ Commit(Call("AsStringClear", this, NoLoc, 0, FALSE), TRUE, live,
              Then(Check(Mem(FALSE), IsString(At(this))),
                   LAMBDA c : Ok(ClearPayload(c.m, At(this).bits))))

\* this.AsArray().clear();
AsArrayClear(this) ==
    /\ Running /\ this \in Locs
    /\ Commit(Call("AsArrayClear", this, NoLoc, 0, FALSE), TRUE, live,
              Then(Check(Mem(FALSE), IsArray(At(this))),
                   LAMBDA c : Ok(ClearPayload(c.m, At(this).bits))))

\* this.AsObject().clear();
AsObjectClear(this) ==
    /\ Running /\ this \in Locs
    /\ Commit(Call("AsObjectClear", this, NoLoc, 0, FALSE), TRUE, live,
              Then(Check(Mem(FALSE), IsObject(At(this))),
                   LAMBDA c : Ok(ClearPayload(c.m, At(this).bits))))

\* the operation has returned (or thrown) and the caller goes on
Return ==
    /\ status = "running" /\ op # IdleOp
    /\ op' = IdleOp
    /\ UNCHANGED <<live, val, heap, status>>

Next ==
    \/ \E x \in Vars, lit \in AllLits : Construct(x, lit)
    \/ \E x \in Vars, src \in Locs : CopyConstruct(x, src)
    \/ \E x \in Vars, src \in Locs : MoveConstruct(x, src)
    \/ \E this \in Locs, other \in Locs : CopyAssign(this, other)
    \/ \E this \in Locs, other \in Locs : MoveAssign(this, other)
    \/ \E this \in Locs, lit \in BareLits, rv \in BOOLEAN : BareAssign(this, lit, rv)
    \/ \E x \in Vars : Freeze(x)
    \/ \E x \in Vars : Unfreeze(x)
    \/ \E x \in Vars : Destroy(x)
    \/ \E this \in Locs : AsStringClear(this)
    \/ \E this \in Locs : AsArrayClear(this)
    \/ \E this \in Locs : AsObjectClear(this)
    \/ Return

Spec == Init /\ [][Next]_vars

TypeOK ==
    /\ status \in {"running", "terminate", "crash"} \cup UBFaults
    /\ \A x \in Vars : val[x]._type \in 0..(2 ^ TypeBits - 1)

(* ------------------------------ properties ----------------------------- *)
\* the frozen bit of the Value object v is set
IsFrozen(v) == BitAnd(v._type, TYPE_FROZEN) = TYPE_FROZEN

AssignNames == {"CopyAssign", "MoveAssign", "BareAssign"}
MoveNames == {"MoveConstruct", "MoveAssign"}
CopyNames == {"CopyConstruct", "CopyAssign"}

\* tag and contents of the Value object v, before and after the step
ValueOf(v) == Abs([heap |-> heap], v)
ValueOfNext(v) == Abs([heap |-> heap'], v)

\* the tag of the source of the assignment the step is
SourceTag ==
    IF op'.name = "BareAssign" THEN op'.kind ELSE GetType(At(op'.other))

\* the step is an operation on two Values the caller holds by name, or on one
\* and a bare String/Object/Array
OnVars ==
    /\ op'.this.k = "var"
    /\ op'.name # "BareAssign" => op'.other.k = "var"

\* the empty String, Object or Array
EmptyOf(type) ==
    CASE type = TYPE_STRING -> LString("")
      [] type = TYPE_OBJECT -> LObject(NoLitObj)
      [] type = TYPE_ARRAY -> LArray(<<>>)

\* how often address p occurs in the sequence s
Count(s, p) == Cardinality({i \in DOMAIN s : s[i] = p})

\* the addresses of the payloads reached from variable x
ReachSet(h, v) == {Reach(h, v)[i] : i \in 1..Len(Reach(h, v))}

\* the variables through which the caller reaches the Value object at loc
Owners(loc) ==
    {x \in Vars : /\ live[x]
                  /\ \/ loc = VarLoc(x)
                     \/ loc.k \in {"arr", "obj"} /\ loc.addr \in ReachSet(heap, val[x])}

\* C1: an assignment to a frozen String, Object or Array from a source of the
\* same tag (copy, move, bare) succeeds and the destination's payload address
\* is the same afterwards.
C1_FrozenSameTagAssignInPlace ==
    [][(/\ op'.name \in AssignNames
        /\ OnVars
        /\ IsFrozen(At(op'.this))
        /\ HoldsPayload(At(op'.this))
        /\ SourceTag = GetType(At(op'.this)))
       => (/\ op'.ex = "none"
           /\ status' = "running"
           /\ op'.this.var \notin op'.moved)]_vars

\* C2: while a Value is frozen, GetType() returns the same tag after every
\* operation, whether the Value is its destination or its source and whether
\* the operation succeeds or fails.
C2_FrozenTagNeverChanges ==
    [][\A x \in Vars :
          (live[x] /\ live'[x] /\ IsFrozen(val[x]))
          => GetType(val'[x]) = GetType(val[x])]_vars

\* C2 at work: a copy-assignment of an Int32 to the frozen String a failed
C2_Witness ==
    /\ op.name = "CopyAssign" /\ op.ex = "invalid_argument:335"
    /\ op.this = VarLoc("a") /\ op.other = VarLoc("b")
    /\ IsFrozen(val["a"]) /\ IsString(val["a"])
    /\ GetType(val["b"]) = TYPE_INT32

\* C3: an assignment to a frozen destination from a source of another tag
\* fails with the type-change error, and destination and source are exactly
\* what they were before the call.
C3_FrozenOtherTagAssignFailsUnchanged ==
    [][(/\ op'.name \in AssignNames
        /\ OnVars
        /\ IsFrozen(At(op'.this))
        /\ SourceTag # GetType(At(op'.this)))
       => (/\ op'.ex \in TypeChangeErrors
           /\ status' = "running"
           /\ live' = live /\ val' = val /\ heap' = heap
           /\ op'.kept)]_vars

\* C4: move-assignment from a frozen source to a destination of the same
\* String/Object/Array tag keeps the destination's payload address, gives the
\* destination the source's contents, and leaves the source with an empty
\* payload of its own tag.
C4_MoveFromFrozenKeepsAddress ==
    [][(/\ op'.name = "MoveAssign"
        /\ OnVars
        /\ op'.this # op'.other
        /\ IsFrozen(At(op'.other))
        /\ HoldsPayload(At(op'.other))
        /\ GetType(At(op'.this)) = GetType(At(op'.other)))
       => (/\ op'.ex = "none"
           /\ status' = "running"
           /\ op'.this.var \notin op'.moved
           /\ ValueOfNext(val'[op'.this.var]) = ValueOf(At(op'.other))
           /\ ValueOfNext(val'[op'.other.var])
                 = EmptyOf(GetType(At(op'.other)))
           /\ heap'[val'[op'.other.var].bits].st = "live")]_vars

\* C5: while a Value holding a String, Object or Array is frozen, its payload
\* address never changes and the payload stays its own, also when the Value
\* is the source of a move.
C5_FrozenAddressNeverChanges ==
    [][\A x \in Vars :
          (/\ live[x] /\ live'[x]
           /\ IsFrozen(val[x]) /\ IsFrozen(val'[x])
           /\ HoldsPayload(val[x]))
          => (/\ x \notin op'.moved
              /\ HoldsPayload(val'[x])
              /\ heap'[val'[x].bits].st = "live")]_vars

\* C6: a move from an unfrozen source into a destination that may take the
\* source's tag succeeds: the destination then equals what the source was and
\* owns its payload, and the source is Undefined.
C6_MoveFromUnfrozenTransfers ==
    [][(/\ op'.name \in MoveNames
        /\ OnVars
        /\ op'.this # op'.other
        /\ ~IsFrozen(At(op'.other))
        /\ \/ op'.name = "MoveConstruct"
           \/ ~IsFrozen(At(op'.this))
           \/ GetType(At(op'.this)) = GetType(At(op'.other)))
       => (/\ op'.ex = "none"
           /\ status' = "running"
           /\ ValueOfNext(val'[op'.this.var]) = ValueOf(At(op'.other))
           /\ HoldsPayload(val'[op'.this.var])
                 => heap'[val'[op'.this.var].bits].st = "live"
           /\ GetType(val'[op'.other.var]) = TYPE_UNDEFINED)]_vars

\* the Values that hold the payload at address p
Holders(p) == {loc \in Locs : HoldsPayload(At(loc)) /\ At(loc).bits = p}

\* C7: every String/Object/Array payload is owned by exactly one live Value
\* whose tag matches it; no payload is released twice; no Value whose tag is
\* String/Object/Array holds a released payload.
C7_ExclusiveOwnership ==
    /\ \A p \in Addrs :
          heap[p].st = "live"
          => \E loc \in Locs : /\ Holders(p) = {loc}
                               /\ KindOf(GetType(At(loc))) = heap[p].kind
    /\ \A loc \in Locs :
          HoldsPayload(At(loc)) => heap[At(loc).bits].st = "live"
    /\ status # "double_free"
    /\ \A i, j \in DOMAIN op.del : op.del[i] = op.del[j] => i = j

\* C8: a copy owns payloads of its own (nested ones included), and an
\* operation on one Value (a mutation through AsString/AsObject/AsArray, an
\* assignment, a destruction) changes neither tag nor contents of any Value
\* held under another name; only a move also changes its source.
C8_DeepCopyIndependence ==
    [][/\ \A x \in Vars \ (Owners(op'.this) \cup
                            (IF op'.name \in MoveNames
                             THEN Owners(op'.other) ELSE {})) :
             (live[x] /\ live'[x]) => ValueOfNext(val'[x]) = ValueOf(val[x])
       /\ (/\ op'.name \in CopyNames
           /\ OnVars
           /\ op'.this # op'.other
           /\ op'.ex = "none"
           /\ status' = "running")
          => ReachSet(heap', val'[op'.this.var])
                \cap ReachSet(heap', val'[op'.other.var]) = {}]_vars

\* C8 at work: b was copy-assigned from the Array a that holds a String, and
\* the two Arrays and the two Strings are four payloads
C8_Witness ==
    /\ op.name = "CopyAssign" /\ op.ex = "none" /\ status = "running"
    /\ op.this = VarLoc("b") /\ op.other = VarLoc("a")
    /\ ValueOf(val["a"]) = LArray(<<LString("x")>>)
    /\ ValueOf(val["b"]) = LArray(<<LString("x")>>)
    /\ Cardinality(ReachSet(heap, val["a"]) \cup ReachSet(heap, val["b"])) = 4

\* C9: after a successful copy-assignment a = b, a has b's tag and a == b,
\* for every pair of tags, two equal scalar tags included.
C9_CopyAssignMakesEqual ==
    (/\ op.name = "CopyAssign"
     /\ op.ex = "none"
     /\ status = "running"
     /\ op.thisNow \in Locs /\ op.otherNow \in Locs)
    => (/\ GetType(At(op.thisNow)) = GetType(At(op.otherNow))
        /\ ValueEq(heap, At(op.thisNow), At(op.otherNow)))

\* C10: destroying a Value raises no error and releases its String, Object
\* or Array payload exactly once, frozen or not.
C10_DestroyReleasesOnce ==
    [][op'.name = "Destroy"
       => (/\ status' = "running"
           /\ op'.ex = "none"
           /\ HoldsPayload(At(op'.this))
                 => Count(op'.del, At(op'.this).bits) = 1)]_vars

\* the Value object at loc after the step
AtNext(loc) == Get([val |-> val', heap |-> heap'], loc)

\* the step did to the operands what the copy-assignment with outcome rc does
SameAsCopy(rc) ==
    /\ status' = "running" /\ rc.m.fault = "none"
    /\ (op'.ex = "none") <=> (rc.ex = "none")
    /\ op'.ex # "none" => (op'.ex \in TypeChangeErrors /\ rc.ex \in TypeChangeErrors)
    /\ ValueOfNext(AtNext(op'.thisNow)) = Abs(rc.m, Get(rc.m, op'.this))
    /\ IsFrozen(AtNext(op'.thisNow)) = IsFrozen(Get(rc.m, op'.this))
    /\ ValueOfNext(AtNext(op'.otherNow)) = ValueOf(At(op'.other))
    /\ IsFrozen(AtNext(op'.otherNow)) = IsFrozen(At(op'.other))

\* C18: when the tags of source and destination differ and either of them is
\* frozen, move-assignment has the outcome of copy-assignment with the same
\* operands: the same success or failure, the same final destination, and
\* the source's tag, frozen bit and payload unchanged.
C18_MoveFallsBackToCopy ==
    [][(/\ op'.name = "MoveAssign"
        /\ op'.this # op'.other
        /\ GetType(At(op'.this)) # GetType(At(op'.other))
        /\ IsFrozen(At(op'.this)) \/ IsFrozen(At(op'.other)))
       => SameAsCopy(AssignCopy(Mem(FALSE), op'.this, op'.other))]_vars

\* C18 at work: a was move-assigned from the frozen String b: b keeps "x" and
\* a holds a copy (a move from a frozen String to a String would have left b
\* empty)
C18_Witness ==
    /\ op.name = "MoveAssign" /\ op.ex = "none" /\ status = "running"
    /\ op.this = VarLoc("a") /\ op.other = VarLoc("b")
    /\ IsFrozen(val["b"]) /\ ~IsFrozen(val["a"])
    /\ ValueOf(val["a"]) = LString("x") /\ ValueOf(val["b"]) = LString("x")

\* C19: the frozen bit is never copied or transferred: a Value copy- or
\* move-constructed from a frozen source is unfrozen, no element or member
\* gets the bit, and no operation but Freeze() and Unfreeze() changes the
\* frozen bit of a Value, be it destination or source.
C19_FrozenBitStaysPut ==
    [][/\ op'.name \in {"CopyConstruct", "MoveConstruct"}
          => ~IsFrozen(val'[op'.this.var])
       /\ \A loc \in ElemLocs : ~IsFrozen(At(loc))
       /\ op'.name \notin {"Freeze", "Unfreeze"}
          => \A x \in Vars : (live[x] /\ live'[x])
                => IsFrozen(val'[x]) = IsFrozen(val[x])]_vars

\* C19 at work: a was copy-constructed from the frozen String b and is not
\* frozen
C19_Witness ==
    /\ op.name = "CopyConstruct" /\ op.ex = "none" /\ status = "running"
    /\ op.this = VarLoc("a") /\ op.other = VarLoc("b")
    /\ IsFrozen(val["b"]) /\ IsString(val["b"])
    /\ ~IsFrozen(val["a"]) /\ IsString(val["a"])

\* C20: copy- or move-assigning to an unfrozen Array or Object V from an
\* element or member of V's own payload gives V the value the element had
\* before the call, and no released payload is read.
C20_AssignFromOwnElement ==
    [][(/\ op'.name \in {"CopyAssign", "MoveAssign"}
        /\ op'.this.k = "var"
        /\ ~IsFrozen(At(op'.this))
        /\ IsArray(At(op'.this)) \/ IsObject(At(op'.this))
        /\ op'.other.k \in {"arr", "obj"}
        /\ op'.other.addr = At(op'.this).bits)
       => (/\ status' = "running"
           /\ op'.ex = "none"
           /\ ValueOfNext(val'[op'.this.var]) = ValueOf(At(op'.other)))]_vars

(* ------------------- the const operations of a Value ------------------- *)
\* longest Array the caller hands to the operations that read a Value
MaxReadLen == 2

\* the keys of the Objects they are handed
ReadKeys == {"k", "l"}

\* what the elements and members are: scalars, a String and nested containers
NestLits == ElemLits \cup {LArray(<<LUndefined>>), LArray(<<LObject(NoLitObj)>>)}
ReadArrays == {LArray(a) : a \in UNION {[1..n -> NestLits] : n \in 0..MaxReadLen}}
ReadObjects == {LObject(o) : o \in UNION {[K -> NestLits] : K \in SUBSET ReadKeys}}
\* the Value a the operations read
ReadLits == ScalarLits \cup StringLits \cup ReadArrays \cup ReadObjects
\* the Value b it is compared with
ReadArgs == {LInt32(1), LDouble(1), LArray(<<LString("x")>>)}

\* The record of the last reading operation.  kind: the tag of the T of
\* AsType<T>(), ex: the exception that left the call, ret: the bool it
\* returned, str: the String it returned, ref: the payload the returned
\* reference refers to, calls: the calls it made on the Writer.
ReadRec(name, this, other, kind, ex, ret, str, ref, calls) ==
    [name |-> name, this |-> this, other |-> other, kind |-> kind, ex |-> ex,
     ret |-> ret, str |-> str, ref |-> ref, calls |-> calls]

IdleRead == ReadRec("none", NoLoc, NoLoc, 0, "none", FALSE, "", 0, <<>>)

\* memory before the caller built anything
NoMem == [val |-> [x \in Vars |-> NewValue], heap |-> [p \in Cells |-> UnusedCell],
          fault |-> "none", oom |-> FALSE, del |-> <<>>, dse |-> FALSE]

\* a and b as the converting constructors and Freeze() left them in m
Built(m, fa, fb) ==
    /\ ~m.oom
    /\ live = [x \in Vars |-> TRUE]
    /\ val = [x \in Vars |->
                IF (x = "a" /\ fa) \/ (x = "b" /\ fb)
                THEN FreezeValue(m.val[x]) ELSE m.val[x]]
    /\ heap = m.heap
    /\ status = "running"
    /\ op = IdleRead

InitRead ==
    \E la \in ReadLits, lb \in ReadArgs, fa \in BOOLEAN, fb \in BOOLEAN :
       Built(Build(Build(NoMem, VarLoc("a"), la), VarLoc("b"), lb), fa, fb)

\* a const member function (or an accessor that only returns a reference) ran:
\* it assigns to no member of any Value
Observe(rec) ==
    /\ status = "running" /\ op = IdleRead
    /\ op' = rec
    /\ UNCHANGED <<live, val, heap, status>>

\* containers are true only when they hold something
OperatorBoolBySize(h, v) ==
    CASE GetType(v) < TYPE_BOOLEAN -> FALSE
      [] IsString(v) -> h[v.bits].str # ""
      [] IsArray(v) -> h[v.bits].arr # <<>>
      [] IsObject(v) -> DOMAIN h[v.bits].obj # {}
      [] OTHER -> v.bits # 0

\* constexpr explicit operator bool() const
OperatorBool(h, v) ==
    IF GetType(v) < TYPE_BOOLEAN THEN FALSE
    ELSE IF BitAnd(GetType(v), BitOr(TYPE_NUMBER, TYPE_STRING)) # 0
    THEN IF BitAnd(GetType(v), TYPE_STRING) # 0 THEN h[v.bits].str # ""
         ELSE IF BitAnd(GetType(v), 1) # 0 THEN v.bits # 0
         ELSE v.bits # 0
    ELSE TRUE

\* constexpr bool IsTruthy() const
IsTruthy(h, v) == OperatorBool(h, v)

\* this.ToBoolean();
ToBoolean(this) ==
    /\ this \in Locs
    /\ Observe(ReadRec("ToBoolean", this, NoLoc, 0, "none", IsTruthy(heap, At(this)),
                       "", 0, <<>>))

\* C11: ToBoolean() on a scalar Value returns false for Undefined and Null,
\* the held boolean for a Boolean, and (value != 0) for an Int32 or a Double.
C11_ToBooleanScalar ==
    op.name = "ToBoolean" =>
       CASE GetType(At(op.this)) \in {TYPE_UNDEFINED, TYPE_NULL} -> op.ret = FALSE
         [] GetType(At(op.this)) = TYPE_BOOLEAN -> op.ret = (At(op.this).bits = 1)
         [] GetType(At(op.this)) \in {TYPE_INT32, TYPE_DOUBLE} ->
              op.ret = (At(op.this).bits # 0)
         [] OTHER -> TRUE

\* C12: ToBoolean() returns true for every Object and every Array, the empty
\* ones included, and for a String returns true exactly when it is non-empty.
C12_ToBooleanPayload ==
    op.name = "ToBoolean" =>
       CASE GetType(At(op.this)) \in {TYPE_OBJECT, TYPE_ARRAY} -> op.ret = TRUE
         [] GetType(At(op.this)) = TYPE_STRING ->
              op.ret = (heap[At(op.this).bits].str # "")
         [] OTHER -> TRUE

\* C12 at work: ToBoolean() of the empty Array a has returned true
C12_Witness ==
    /\ op.name = "ToBoolean" /\ op.this = VarLoc("a") /\ op.ret
    /\ IsArray(val["a"]) /\ heap[val["a"].bits].arr = <<>>

(* ------------------------------ Write ---------------------------------- *)
\* a call on the Writer: the member function, and its int/double/bool or
\* string argument
WCall(call, n, s) == [call |-> call, n |-> n, s |-> s]

\* Object is a std::unordered_map: the order in which a range-for visits the
\* members of an Object is the implementation's, one order for each Object
Perms(S) == {p \in [1..Cardinality(S) -> S] : \A i, j \in DOMAIN p : p[i] = p[j] => i = j}
IterOrders ==
    {ord \in [Addrs -> Perms(ReadKeys)] :
        \A p \in Addrs : heap[p].kind # "Object" => ord[p] = KeyOrder}

RECURSIVE WriteCalls(_, _, _)
RECURSIVE WriteMembers(_, _, _, _)
RECURSIVE WriteMembersAll(_, _, _, _)
RECURSIVE WriteElements(_, _, _, _)
RECURSIVE WriteElementsSkip(_, _, _, _)

\* the loop over the members with no test for Undefined
WriteMembersAll(h, p, i, ord) ==
    IF i > Len(ord[p]) THEN <<>>
    ELSE (IF ord[p][i] \notin DOMAIN h[p].obj THEN <<>>
          ELSE <<WCall("StartStructElement", 0, ord[p][i])>>
               \o WriteCalls(h, h[p].obj[ord[p][i]], ord)
               \o <<WCall("EndStructElement", 0, "")>>)
         \o WriteMembersAll(h, p, i + 1, ord)

\* for (const auto& p : *_object) { ... }  from the i-th member on
WriteMembers(h, p, i, ord) ==
    IF i > Len(ord[p]) THEN <<>>
    ELSE (IF ord[p][i] \notin DOMAIN h[p].obj THEN <<>>
          ELSE IF GetType(h[p].obj[ord[p][i]]) = TYPE_UNDEFINED THEN <<>>
          ELSE <<WCall("StartStructElement", 0, ord[p][i])>>
               \o WriteCalls(h, h[p].obj[ord[p][i]], ord)
               \o <<WCall("EndStructElement", 0, "")>>)
         \o WriteMembers(h, p, i + 1, ord)

\* the loop over the elements that passes over the Undefined ones
WriteElementsSkip(h, p, i, ord) ==
    IF i > Len(h[p].arr) THEN <<>>
    ELSE (IF GetType(h[p].arr[i]) = TYPE_UNDEFINED THEN <<>>
          ELSE WriteCalls(h, h[p].arr[i], ord))
         \o WriteElementsSkip(h, p, i + 1, ord)

\* for (const auto& e : *_array) { ... }  from the i-th element on
WriteElements(h, p, i, ord) ==
    IF i > Len(h[p].arr) THEN <<>>
    ELSE (IF GetType(h[p].arr[i]) = TYPE_UNDEFINED
          THEN <<WCall("WriteNull", 0, "")>>
          ELSE WriteCalls(h, h[p].arr[i], ord))
         \o WriteElements(h, p, i + 1, ord)

\* void Write(Writer& writer) const: the calls it makes on the writer
WriteCalls(h, v, ord) ==
    CASE GetType(v) \in {TYPE_UNDEFINED, TYPE_NULL} -> <<WCall("WriteNull", 0, "")>>
      [] GetType(v) = TYPE_BOOLEAN -> <<WCall("Write(bool)", v.bits, "")>>
      [] GetType(v) = TYPE_DOUBLE -> <<WCall("Write(double)", v.bits, "")>>
      [] GetType(v) = TYPE_INT32 -> <<WCall("Write(int32_t)", v.bits, "")>>
      [] GetType(v) = TYPE_STRING -> <<WCall("Write(string)", 0, h[v.bits].str)>>
      [] GetType(v) = TYPE_OBJECT ->
           <<WCall("StartStruct", 0, "")>> \o WriteMembers(h, v.bits, 1, ord)
              \o <<WCall("EndStruct", 0, "")>>
      [] GetType(v) = TYPE_ARRAY ->
           <<WCall("StartArray", 0, "")>> \o WriteElements(h, v.bits, 1, ord)
              \o <<WCall("EndArray", 0, "")>>
      [] OTHER -> <<>>

\* this.Write(writer);
Write(this, ord) ==
    /\ this \in Locs
    /\ Observe(ReadRec("Write", this, NoLoc, 0, "none", FALSE, "", 0,
                       WriteCalls(heap, At(this), ord)))

RECURSIVE MemberTriples(_, _, _)
\* for the members of the Object at p in the order keys: nothing for an
\* Undefined member, else StartStructElement(key), the calls of the member's
\* own Write, EndStructElement
MemberTriples(p, keys, ord) ==
    IF keys = <<>> THEN <<>>
    ELSE (IF GetType(heap[p].obj[Head(keys)]) = TYPE_UNDEFINED THEN <<>>
          ELSE <<WCall("StartStructElement", 0, Head(keys))>>
               \o WriteCalls(heap, heap[p].obj[Head(keys)], ord)
               \o <<WCall("EndStructElement", 0, "")>>)
         \o MemberTriples(p, Tail(keys), ord)

\* C13: Write on an Object emits StartStruct first and EndStruct last and,
\* between them, for each member that is not Undefined one
\* StartStructElement(key), the member's own Write calls and EndStructElement;
\* an Undefined member causes no call at all.
C13_WriteObject ==
    (op.name = "Write" /\ IsObject(At(op.this))) =>
       \E keys \in Perms(DOMAIN heap[At(op.this).bits].obj), ord \in IterOrders :
          op.calls = <<WCall("StartStruct", 0, "")>>
                        \o MemberTriples(At(op.this).bits, keys, ord)
                        \o <<WCall("EndStruct", 0, "")>>

\* C13 at work: the Object a with the Int32 member l and the Undefined member
\* k was written
C13_Witness ==
    /\ op.name = "Write" /\ op.this = VarLoc("a") /\ IsObject(val["a"])
    /\ ValueOf(val["a"]) = LObject([x \in {"k", "l"} |->
                                      IF x = "k" THEN LUndefined ELSE LInt32(1)])
    /\ op.calls = <<WCall("StartStruct", 0, ""), WCall("StartStructElement", 0, "l"),
                    WCall("Write(int32_t)", 1, ""), WCall("EndStructElement", 0, ""),
                    WCall("EndStruct", 0, "")>>

RECURSIVE ElementSlots(_, _, _)
\* for the elements of the Array at p from the i-th on: WriteNull for an
\* Undefined element, else the calls of the element's own Write
ElementSlots(p, i, ord) ==
    IF i > Len(heap[p].arr) THEN <<>>
    ELSE (IF GetType(heap[p].arr[i]) = TYPE_UNDEFINED
          THEN <<WCall("WriteNull", 0, "")>>
          ELSE WriteCalls(heap, heap[p].arr[i], ord))
         \o ElementSlots(p, i + 1, ord)

\* C14: Write on an Array emits StartArray, then for each element in index
\* order a single WriteNull (Undefined element) or the element's own Write
\* calls, then EndArray: every element produces its slot.
C14_WriteArray ==
    (op.name = "Write" /\ IsArray(At(op.this))) =>
       \E ord \in IterOrders :
          op.calls = <<WCall("StartArray", 0, "")>>
                        \o ElementSlots(At(op.this).bits, 1, ord)
                        \o <<WCall("EndArray", 0, "")>>

\* C14 at work: the Array a of an Undefined element and the String "x" was
\* written
C14_Witness ==
    /\ op.name = "Write" /\ op.this = VarLoc("a")
    /\ ValueOf(val["a"]) = LArray(<<LUndefined, LString("x")>>)
    /\ op.calls = <<WCall("StartArray", 0, ""), WCall("WriteNull", 0, ""),
                    WCall("Write(string)", 0, "x"), WCall("EndArray", 0, "")>>

(* ------------------------------ AsType --------------------------------- *)
IsBoolean(v) == BitAnd(GetType(v), TYPE_BOOLEAN) # 0
IsNumber(v) == BitAnd(GetType(v), TYPE_NUMBER) # 0
IsDouble(v) == GetType(v) = TYPE_DOUBLE
IsInt32(v) == GetType(v) = TYPE_INT32

\* the tags of the T of AsType<T>()
AsTypes == {TYPE_BOOLEAN, TYPE_DOUBLE, TYPE_INT32, TYPE_STRING, TYPE_OBJECT,
            TYPE_ARRAY}

\* AsBoolean(), AsDouble(), AsInt32(), AsString(), AsObject(), AsArray():
\* Check(Is...()), then the reference to the union member or to the payload
AsRef(m, v, type) ==
    Then(Check(m, CASE type = TYPE_BOOLEAN -> IsBoolean(v)
                    [] type = TYPE_DOUBLE -> IsDouble(v)
                    [] type = TYPE_INT32 -> IsInt32(v)
                    [] type = TYPE_STRING -> IsString(v)
                    [] type = TYPE_OBJECT -> IsObject(v)
                    [] type = TYPE_ARRAY -> IsArray(v)),
         LAMBDA c : Ret(c.m, IF type \in PtrTypes THEN v.bits ELSE 0))

\* what the accessor returned or threw
Accessed(this, type, r) ==
    Observe(ReadRec("AsType", this, NoLoc, type, r.ex, FALSE, "", r.ret, <<>>))

\* this.AsType<T>();
AsType(this, type) ==
    /\ this \in Locs /\ type \in AsTypes
    /\ Accessed(this, type, AsRef(Mem(FALSE), At(this), type))

\* C15: each accessor succeeds if and only if GetType() equals the requested
\* tag exactly, whatever the frozen bit; on a mismatch it raises the
\* invalid-access error and leaves tag, frozen bit and payload unchanged.
C15_AccessorExactTag ==
    [][op'.name = "AsType" =>
          /\ (op'.ex = "none") <=> (GetType(At(op'.this)) = op'.kind)
          /\ op'.ex # "none" => op'.ex = "invalid_argument:216"
          /\ val' = val /\ heap' = heap /\ live' = live]_vars

\* C15 at work: AsType<Double>() on the frozen Int32 a has thrown
C15_Witness ==
    /\ op.name = "AsType" /\ op.this = VarLoc("a") /\ op.kind = TYPE_DOUBLE
    /\ IsFrozen(val["a"]) /\ GetType(val["a"]) = TYPE_INT32
    /\ op.ex = "invalid_argument:216"

(* ---------------------------- operator== ------------------------------- *)
\* what a == b returned
Compared(x, y, r) ==
    Observe(ReadRec("Equal", x, y, 0, "none", r, "", 0, <<>>))

\* x == y;
Equal(x, y) ==
    /\ x \in Locs /\ y \in Locs
    /\ Compared(x, y, IF x = y THEN TRUE ELSE ValueEq(heap, At(x), At(y)))

\* C16: a == b is true only if a and b have the same tag and their payloads
\* compare equal (an Int32 never equals a Double), two Int32 Values with the
\* same integer are equal, and the result does not depend on the frozen bit
\* of either operand.
C16_EqualityIsTypeStrict ==
    op.name = "Equal" =>
       /\ op.ret => ValueOf(At(op.this)) = ValueOf(At(op.other))
       /\ (/\ IsInt32(At(op.this)) /\ IsInt32(At(op.other))
           /\ At(op.this).bits = At(op.other).bits) => op.ret
       /\ op.ret = ValueEq(heap, UnfreezeValue(At(op.this)),
                           UnfreezeValue(At(op.other)))

\* C16 at work: the Int32 1 in a was compared with the frozen Double 1 in b
\* and found different
C16_Witness ==
    /\ op.name = "Equal" /\ op.this = VarLoc("a") /\ op.other = VarLoc("b")
    /\ ValueOf(val["a"]) = LInt32(1) /\ ValueOf(val["b"]) = LDouble(1)
    /\ IsFrozen(val["b"]) /\ ~op.ret

(* ------------------------------ ToString ------------------------------- *)
RECURSIVE IntToString(_)
\* std::to_string(int) of a value that is not negative
IntToString(n) ==
    IF n >= 10 THEN IntToString(n \div 10) \o IntToString(n % 10)
    ELSE CASE n = 0 -> "0" [] n = 1 -> "1" [] n = 2 -> "2" [] n = 3 -> "3"
           [] n = 4 -> "4" [] n = 5 -> "5" [] n = 6 -> "6" [] n = 7 -> "7"
           [] n = 8 -> "8" [] n = 9 -> "9"

\* std::to_string(double) ("%f") of a whole value that is not negative
DoubleToString(d) == IntToString(d) \o ".000000"

RECURSIVE ToStringOf(_, _)
RECURSIVE ToStringJoin(_, _, _, _)

\* for (const auto& v : *_array) { ... } from the i-th element on, result
\* holding what the elements before it gave
ToStringJoin(m, p, i, result) ==
    IF i > Len(m.heap[p].arr) THEN Ret(m, result)
    ELSE Then(ToStringOf(m, m.heap[p].arr[i]),
              LAMBDA r : ToStringJoin(r.m, p, i + 1,
                            (IF i > 1 THEN result \o "," ELSE result) \o r.ret))

\* String ToString() const.  The default case throws a pointer to a new
\* std::invalid_argument, not a std::invalid_argument.
ToStringOf(m, v) ==
    CASE GetType(v) = TYPE_STRING -> Ret(m, m.heap[v.bits].str)
      [] GetType(v) = TYPE_UNDEFINED -> Ret(m, "undefined")
      [] GetType(v) = TYPE_NULL -> Ret(m, "null")
      [] GetType(v) = TYPE_BOOLEAN -> Ret(m, IF v.bits # 0 THEN "true" ELSE "false")
      [] GetType(v) = TYPE_DOUBLE -> Ret(m, DoubleToString(v.bits))
      [] GetType(v) = TYPE_INT32 -> Ret(m, IntToString(v.bits))
      [] GetType(v) = TYPE_ARRAY -> ToStringJoin(m, v.bits, 1, "")
      [] OTHER -> Throw(m, "invalid_argument*:281")

\* what ToString() returned or threw
Converted(this, r) ==
    Observe(ReadRec("ToString", this, NoLoc, 0, r.ex, FALSE,
                    IF r.ex = "none" THEN r.ret ELSE "", 0, <<>>))

\* this.ToString();
ValueToString(this) ==
    /\ this \in Locs
    /\ Converted(this, ToStringOf(Mem(FALSE), At(this)))

RECURSIVE HoldsObject(_)
\* the Value v is an Object, or an Array with such a Value among its elements
HoldsObject(v) ==
    \/ IsObject(v)
    \/ IsArray(v) /\ \E i \in 1..Len(heap[v.bits].arr) : HoldsObject(heap[v.bits].arr[i])

RECURSIVE CommaJoined(_, _)
\* the ToString() of the elements of the Array at p from the i-th on, joined
\* by commas
CommaJoined(p, i) ==
    IF i > Len(heap[p].arr) THEN ""
    ELSE (IF i > 1 THEN "," ELSE "")
            \o ToStringOf(Mem(FALSE), heap[p].arr[i]).ret \o CommaJoined(p, i + 1)

\* the error of a conversion that is not defined: a std::invalid_argument
\* thrown at value.h:281
InvalidConversion == "invalid_argument:281"

\* C17: ToString() on an Object fails with the invalid-conversion error and
\* leaves the Value unchanged; on an Array it returns the ToString() of the
\* elements in index order joined by commas without brackets, and fails in
\* the same way when an element at any depth is an Object.
C17_ToStringObjectFails ==
    [][op'.name = "ToString" =>
          /\ val' = val /\ heap' = heap /\ live' = live
          /\ HoldsObject(At(op'.this)) => op'.ex = InvalidConversion
          /\ (IsArray(At(op'.this)) /\ ~HoldsObject(At(op'.this))) =>
                /\ op'.ex = "none"
                /\ op'.str = CommaJoined(At(op'.this).bits, 1)]_vars

(* ------------------ the caller of the const operations ----------------- *)
\* the caller has seen what the operation returned
ReturnRead ==
    /\ status = "running" /\ op # IdleRead
    /\ op' = IdleRead
    /\ UNCHANGED <<live, val, heap, status>>

NextRead ==
    \/ \E this \in Locs : ToBoolean(this)
    \/ \E this \in Locs, ord \in IterOrders : Write(this, ord)
    \/ \E this \in Locs, type \in AsTypes : AsType(this, type)
    \/ \E x \in Locs, y \in Locs : Equal(x, y)
    \/ \E this \in Locs : ValueToString(this)
    \/ ReturnRead

SpecRead == InitRead /\ [][NextRead]_vars

====
